---- MODULE Spec2Model ----
(***************************************************************************)
(* Model of emar-kar/find: the template grammar and its evaluation         *)
(* (Template, NewTemplate, parse, Match, MatchAny, MatchAll), the batch    *)
(* traversal (Find, find, resolvePath) with its options, the output sink   *)
(* of the options with writers (printOutput) and the streaming mode        *)
(* (FindWithIterator).                                                     *)
(*                                                                         *)
(* Strings are sequences of one-character strings.  The traversal is the   *)
(* recursive function find, run as a machine with an explicit call stack:  *)
(* one frame per active call of find, one step per loop iteration.         *)
(***************************************************************************)
EXTENDS Integers, Sequences, FiniteSets, TLC

\* ------------------------------------------------------------------ bounds
\* Longest candidate string handed to Template.Match in SpecMatch.
MaxLen == 4
\* Largest number of entries below the root of a modelled directory tree.
MaxNodes == 3
\* Largest result cap given to Max.
MaxCap == 2
\* Longest literal of a filter string in SpecMatch, longest result string in
\* SpecOutput.
MaxLit == 2

\* ----------------------------------------------------------------- strings
\* os.PathSeparator as a string.
pathSeparator == "/"

\* Characters of file names and literals.
Letters == {"a", "b"}

\* Characters of the candidate strings.
Chars == Letters \cup {pathSeparator}

\* All strings over S of length at most n.
StringsUpTo(S, n) == UNION {[1..k -> S] : k \in 0..n}

\* strings.HasPrefix
HasPrefix(s, p) == Len(s) >= Len(p) /\ SubSeq(s, 1, Len(p)) = p

\* strings.HasSuffix
HasSuffix(s, p) == Len(s) >= Len(p) /\ SubSeq(s, Len(s) - Len(p) + 1, Len(s)) = p

\* strings.TrimPrefix
TrimPrefix(s, p) == IF HasPrefix(s, p) THEN SubSeq(s, Len(p) + 1, Len(s)) ELSE s

\* strings.TrimSuffix
TrimSuffix(s, p) == IF HasSuffix(s, p) THEN SubSeq(s, 1, Len(s) - Len(p)) ELSE s

\* strings.Index: the 1-based position of the first occurrence of sub in s,
\* 0 when there is none (Go: 0-based and -1).
Index(s, sub) ==
    LET hits == {i \in 1..(Len(s) - Len(sub) + 1) : SubSeq(s, i, i + Len(sub) - 1) = sub}
    IN  IF hits = {} THEN 0 ELSE CHOOSE i \in hits : \A j \in hits : i <= j

\* strings.Contains
Contains(s, sub) == Index(s, sub) # 0

RECURSIVE Split(_, _)
\* strings.Split for a non-empty separator: the pieces of s between the
\* successive non-overlapping occurrences of sep.
Split(s, sep) ==
    LET i == Index(s, sep)
    IN  IF i = 0
        THEN <<s>>
        ELSE <<SubSeq(s, 1, i - 1)>> \o Split(SubSeq(s, i + Len(sep), Len(s)), sep)

RECURSIVE ReplaceAll(_, _, _)
\* strings.ReplaceAll for a non-empty old: every non-overlapping occurrence
\* of old in s replaced by new.
ReplaceAll(s, old, new) ==
    LET i == Index(s, old)
    IN  IF i = 0
        THEN s
        ELSE SubSeq(s, 1, i - 1) \o new
             \o ReplaceAll(SubSeq(s, i + Len(old), Len(s)), old, new)

\* strings.IndexFunc(str, r == '&' || r == '|'), 1-based, 0 when none.
IndexSep(str) ==
    LET hits == {i \in 1..Len(str) : str[i] \in {"&", "|"}}
    IN  IF hits = {} THEN 0 ELSE CHOOSE i \in hits : \A j \in hits : i <= j

\* --------------------------------------------------------------- templates
\* The nil *Template.
NoTemplate == [nil |-> TRUE]

\* parse with the trailing '*' left unread: the right anchor always set.
parseStrictRight(str) ==
    LET not == HasPrefix(str, <<"!">>)
        s1  == TrimPrefix(str, <<"!">>)
        s2  == TrimPrefix(s1, <<"*">>)
    IN  [and |-> NoTemplate, or |-> NoTemplate,
         base |-> TrimSuffix(s2, <<"*">>), not |-> not,
         strictLeft |-> ~HasPrefix(s1, <<"*">>), strictRight |-> TRUE]

\* parse: one leaf of a filter string.
parse(str) ==
    LET not == HasPrefix(str, <<"!">>)
        s1  == TrimPrefix(str, <<"!">>)
    IN  IF s1 = <<"*">>
        THEN [and |-> NoTemplate, or |-> NoTemplate, base |-> s1, not |-> not,
              strictLeft |-> FALSE, strictRight |-> FALSE]
        ELSE LET s2 == TrimPrefix(s1, <<"*">>)
             IN  [and |-> NoTemplate, or |-> NoTemplate,
                  base |-> TrimSuffix(s2, <<"*">>), not |-> not,
                  strictLeft |-> ~HasPrefix(s1, <<"*">>),
                  strictRight |-> ~HasSuffix(s2, <<"*">>)]

RECURSIVE NewTemplate(_)
\* NewTemplate: split at the first '&' or '|', parse the head, recurse on the
\* tail.
NewTemplate(str) ==
    LET sep == IndexSep(str)
    IN  IF sep = 0
        THEN parse(str)
        ELSE LET head == parse(SubSeq(str, 1, sep - 1))
                 tail == NewTemplate(SubSeq(str, sep + 1, Len(str)))
             IN  IF str[sep] = "&"
                 THEN [head EXCEPT !.and = tail]
                 ELSE [head EXCEPT !.or = tail]

\* The direct test with a left anchor that accepts only the start of the
\* string, not the position after a path separator.
MatchBaseStartOnly(t, str) ==
    IF t.base = <<>> THEN FALSE
    ELSE IF t.base = <<"*">> THEN TRUE
    ELSE IF Contains(str, t.base)
    THEN LET sub   == Split(str, t.base)
             left  == \/ Len(sub) = 1
                      \/ sub[1] = <<>>
             right == \/ Len(sub) = 1
                      \/ sub[2] = <<>>
                      \/ HasPrefix(sub[2], <<pathSeparator>>)
             m     == IF t.strictLeft /\ t.strictRight THEN left /\ right
                      ELSE IF t.strictLeft THEN left
                      ELSE IF t.strictRight THEN right
                      ELSE TRUE
         IN  IF t.not THEN ~m ELSE m
    ELSE t.not

\* The direct test of one node of Template.Match, before the continuations.
MatchBase(t, str) ==
    IF t.base = <<>> THEN FALSE
    ELSE IF t.base = <<"*">> THEN TRUE
    ELSE IF Contains(str, t.base)
    THEN LET sub   == Split(str, t.base)
             left  == \/ Len(sub) = 1
                      \/ sub[1] = <<>>
                      \/ HasSuffix(sub[1], <<pathSeparator>>)
             right == \/ Len(sub) = 1
                      \/ sub[2] = <<>>
                      \/ HasPrefix(sub[2], <<pathSeparator>>)
             m     == IF t.strictLeft /\ t.strictRight THEN left /\ right
                      ELSE IF t.strictLeft THEN left
                      ELSE IF t.strictRight THEN right
                      ELSE TRUE
         IN  IF t.not THEN ~m ELSE m
    ELSE t.not

RECURSIVE Match(_, _)
\* The or continuation consulted whatever the direct test gave.
MatchOrAlways(t, str, match) ==
    IF t.or # NoTemplate THEN Match(t.or, str) ELSE match

\* The or continuation of Template.Match: consulted when the direct test
\* failed.
MatchOr(t, str, match) ==
    IF t.or # NoTemplate /\ ~match THEN Match(t.or, str) ELSE match

\* The and continuation of Template.Match: consulted when the test so far
\* succeeded.
MatchAnd(t, str, match) ==
    IF t.and # NoTemplate
    THEN IF ~match THEN match ELSE Match(t.and, str)
    ELSE match

\* Template.Match
Match(t, str) == MatchAnd(t, str, MatchOr(t, str, MatchBase(t, str)))

\* NewTemplates
NewTemplates(strs) == [i \in 1..Len(strs) |-> NewTemplate(strs[i])]

RECURSIVE MatchAnyFrom(_, _, _)
\* The loop of MatchAny from the i-th template on: true at the first template
\* that matches, false when the templates run out.
MatchAnyFrom(ts, str, i) ==
    IF i > Len(ts) THEN FALSE
    ELSE IF Match(ts[i], str) THEN TRUE
    ELSE MatchAnyFrom(ts, str, i + 1)

\* MatchAny
MatchAny(ts, str) == MatchAnyFrom(ts, str, 1)

RECURSIVE MatchAllFrom(_, _, _)
\* The loop of MatchAll from the i-th template on: false at the first
\* template that does not match, true when the templates run out.
MatchAllFrom(ts, str, i) ==
    IF i > Len(ts) THEN TRUE
    ELSE IF ~Match(ts[i], str) THEN FALSE
    ELSE MatchAllFrom(ts, str, i + 1)

\* MatchAll returning the outcome of its first template.
MatchAllFirstOnly(ts, str) == IF Len(ts) = 0 THEN TRUE ELSE Match(ts[1], str)

\* MatchAll
MatchAll(ts, str) == MatchAllFrom(ts, str, 1)

\* strings.ToLower on the model's characters.
ToLower(s) ==
    [i \in 1..Len(s) |-> IF s[i] = "A" THEN "a" ELSE IF s[i] = "B" THEN "b" ELSE s[i]]

\* -------------------------------------------------------------- file system
\* Type of the searched object.
File == 0
Folder == 1
Both == 2

\* File names, in the order os.ReadDir sorts them.
NameList == << <<"a">>, <<"b">> >>

\* The position of a name in NameList.
NameRank(nm) == CHOOSE i \in 1..Len(NameList) : NameList[i] = nm

\* The where argument of Find and what resolvePath makes of it.
RootOrig == <<"a">>
RootRes == <<pathSeparator, "a">>

\* The root directory is node 0; the entries below it are 1..Len(tree).
Root == 0

\* The ancestors of node k in tree t, the root included.
RECURSIVE Ancestors(_, _)
Ancestors(t, k) == IF k = Root THEN {} ELSE {t[k].parent} \cup Ancestors(t, t[k].parent)

\* A directory tree: entry k has a parent directory, a name and a kind.
\* Entries are numbered in depth-first order and the entries of one
\* directory have distinct names, in os.ReadDir's (sorted) order.
IsTree(t) ==
    /\ \A k \in 1..Len(t) :
          /\ t[k].parent < k
          /\ t[k].parent # Root => t[t[k].parent].kind = "dir"
          /\ k > 1 => t[k].parent \in {k - 1} \cup Ancestors(t, k - 1)
    /\ \A j, k \in 1..Len(t) :
          (j < k /\ t[j].parent = t[k].parent)
              => NameRank(t[j].name) < NameRank(t[k].name)

Entry == [parent : 0..(MaxNodes - 1),
          name : {NameList[i] : i \in 1..Len(NameList)},
          kind : {"file", "dir"}]

Trees == {t \in UNION {[1..n -> Entry] : n \in 0..MaxNodes} : IsTree(t)}

\* os.ReadDir(dir): the entries of directory d, sorted by name.
RECURSIVE ReadDirFrom(_, _, _)
ReadDirFrom(t, d, k) ==
    IF k > Len(t) THEN <<>>
    ELSE (IF t[k].parent = d THEN <<k>> ELSE <<>>) \o ReadDirFrom(t, d, k + 1)

ReadDir(t, d) == ReadDirFrom(t, d, 1)

IsDirFollowingLinks(t, k) == t[k].kind \in {"dir", "link"}

\* fs.DirEntry.IsDir: false for a symbolic link, whatever its target.
IsDir(t, k) == t[k].kind = "dir"

\* filepath.Join(resPath, f.Name())
Join(dir, nm) == dir \o <<pathSeparator>> \o nm

\* Where the symbolic links of the tree point: a directory outside the root.
TargetRes == <<pathSeparator, "t">>

\* Entry k is a symbolic link to a directory of the tree: its target field
\* names that directory.
IsBackLink(t, k) == t[k].kind = "link" /\ "target" \in DOMAIN t[k]

\* The directory that is listed when entry k is entered: the target of a
\* link into the tree, k itself otherwise (the entries of a link's target
\* outside the tree are the entries below the link).
ResolvedDir(t, k) == IF IsBackLink(t, k) THEN t[k].target ELSE k

RECURSIVE PathOf(_, _)
\* resolvePath on the path p of entry k, which exists and is absolute: the
\* path of the target for a symbolic link (filepath.EvalSymlinks), p itself
\* otherwise.
resolvePath(t, k, p) ==
    IF t[k].kind = "link"
    THEN IF IsBackLink(t, k) THEN PathOf(t, t[k].target) ELSE TargetRes
    ELSE p

\* The resolved path of node k: the joins made on the way down from the root,
\* each on the resolved path of the directory listed.
PathOf(t, k) ==
    IF k = Root THEN RootRes
    ELSE Join(IF t[k].parent = Root
              THEN RootRes
              ELSE resolvePath(t, t[k].parent, PathOf(t, t[k].parent)),
              t[k].name)

\* A directory tree with symbolic links to directories: as IsTree, and the
\* entries whose parent is a link are the entries of the link's target.
IsLinkTree(t) ==
    /\ \A k \in 1..Len(t) :
          /\ t[k].parent < k
          /\ t[k].parent # Root => t[t[k].parent].kind \in {"dir", "link"}
          /\ k > 1 => t[k].parent \in {k - 1} \cup Ancestors(t, k - 1)
    /\ \A j, k \in 1..Len(t) :
          (j < k /\ t[j].parent = t[k].parent)
              => NameRank(t[j].name) < NameRank(t[k].name)

LinkEntry == [parent : 0..(MaxNodes - 1),
              name : {NameList[i] : i \in 1..Len(NameList)},
              kind : {"file", "dir", "link"}]

\* The trees with one symbolic link, whose target holds at least one entry.
LinkTrees ==
    {t \in UNION {[1..n -> LinkEntry] : n \in 0..MaxNodes} :
        /\ IsLinkTree(t)
        /\ Cardinality({k \in 1..Len(t) : t[k].kind = "link"}) = 1
        /\ \E k \in 1..Len(t) : t[k].parent # Root /\ t[t[k].parent].kind = "link"}

\* The tree t with the directory g[k] as the target of its link k.
WithTargets(t, g) ==
    [k \in 1..Len(t) |->
        [parent |-> t[k].parent, name |-> t[k].name, kind |-> t[k].kind,
         target |-> g[k]]]

\* The choices of a target for every link of t: one of the directories the
\* link lies in (the root included).
BackTargets(t) ==
    {g \in [1..Len(t) -> 0..(MaxNodes - 1)] :
        \A k \in 1..Len(t) :
            IF t[k].kind = "link" THEN g[k] \in Ancestors(t, k) ELSE g[k] = Root}

\* The trees whose symbolic links point back to a directory they lie in:
\* as IsTree (a link has no entries of its own), and every link has one of
\* its ancestors as its target.
BackLinkTrees ==
    UNION {{WithTargets(t, g) : g \in BackTargets(t)} :
              t \in {u \in UNION {[1..n -> LinkEntry] : n \in 0..MaxNodes} :
                        IsTree(u)}}

\* ------------------------------------------------------------------- state
VARIABLES
    tree,       \* the directory tree below the root
    pattern,    \* the template argument of Find: a sequence of filter strings
    opt,        \* the options record
    pc,         \* "idle" before Find is called, "running", "done", "panic"
    stack,      \* the active calls of find, the innermost last
    unwinding,  \* the error being returned up the calls, "none" if none
    ret,        \* what Find returned: the result list and the error
    cancelled,  \* ctx.Done() is closed
    out,        \* what was printed to standard output, in order
    failed,     \* <<directory, operation>> for each resolvePath or os.ReadDir
                \* that failed
    emitted,    \* how many times res = append(res, found) ran
    examined,   \* how many entries passed the ctx.Done() check
    observed,   \* the ctx.Done() check found the context done
    startCancelled, \* the context was done when Find was called
    listed,     \* the directories a batch call listed with os.ReadDir, in order
    wOut,       \* what was written to the writer given to WithWriter
    iterCh,     \* the results sent to the iterator channel and not yet received
    errCh,      \* the error channel: at most one error
    iterClosed, \* the iterator channel is closed
    errClosed,  \* the error channel is closed
    remaining,  \* a streaming traversal's count of results still allowed, -1
                \* for no cap
    tFilter,    \* the filter string handed to NewTemplate
    tCand,      \* the candidate string handed to Template.Match
    tRes        \* <<the outcome of the match>>, empty before it ran

vars == <<tree, pattern, opt, pc, stack, unwinding, ret, cancelled, out, failed,
          emitted, examined, observed, startCancelled, listed, wOut, iterCh,
          errCh, iterClosed, errClosed, remaining, tFilter, tCand, tRes>>

\* The writer of WithWriter and the channels of the streaming mode, which a
\* batch call never touches.
streamVars == <<wOut, iterCh, errCh, iterClosed, errClosed, remaining>>

findVars == <<tree, pattern, opt, pc, stack, unwinding, ret, cancelled, out,
              failed, emitted, examined, observed, startCancelled, listed,
              streamVars>>

matchVars == <<tFilter, tCand, tRes>>

\* The inputs of a call, which it never changes.
inputs == <<tree, pattern, opt>>

\* ----------------------------------------------------------------- options
\* defaultOptions
defaultOptions ==
    [matchAll |-> FALSE, insensitive |-> FALSE, fType |-> Both, max |-> -1,
     rec |-> FALSE, name |-> FALSE, relative |-> FALSE, full |-> FALSE,
     skip |-> FALSE, log |-> FALSE, output |-> FALSE]

\* opt.caseFunc: sensitive, or strings.ToLower after Insensitive.
caseFunc(o, s) == IF o.insensitive THEN ToLower(s) ELSE s

\* opt.matchFunc: MatchAny, or MatchAll after Strict.
matchFunc(o, ts, s) == IF o.matchAll THEN MatchAll(ts, s) ELSE MatchAny(ts, s)

\* The templates Find builds from its template argument.
Templates(o, pat) == NewTemplates([i \in 1..Len(pat) |-> caseFunc(o, pat[i])])

\* The type test with File accepting directories too.
IsSearchedTypeFileAny(o, isDir) ==
    \/ o.fType = Both
    \/ o.fType = File
    \/ (o.fType = Folder /\ isDir)

\* The type test of find's condition.
IsSearchedType(o, isDir) ==
    \/ o.fType = Both
    \/ (o.fType = File /\ ~isDir)
    \/ (o.fType = Folder /\ isDir)

\* The match test of find's condition: the full path or the entry name.
MatchTarget(o, ts, p, nm) ==
    \/ (o.full /\ matchFunc(o, ts, caseFunc(o, p)))
    \/ (~o.full /\ matchFunc(o, ts, caseFunc(o, nm)))

\* find's condition on one entry.
Accepts(o, ts, p, nm, isDir) == IsSearchedType(o, isDir) /\ MatchTarget(o, ts, p, nm)

\* The value find reports for an accepted entry.
Found(o, p, nm) ==
    IF o.name THEN nm
    ELSE IF o.relative THEN ReplaceAll(p, RootRes, RootOrig)
    ELSE p

\* The cap test passing only once the list is longer than the cap.
CapReachedLate(o, n) == o.max # -1 /\ n > o.max

\* The cap test after res = append(res, found).
CapReached(o, n) == o.max # -1 /\ n >= o.max

\* The merge without the cut: the whole recursive result is appended when
\* the cap is reached.
MergeNoCut(o, res, recData) ==
    [res |-> res \o recData,
     returns |-> (o.max # -1 /\ Len(res) + Len(recData) >= o.max),
     panics |-> FALSE]

\* The merge with the recursive result put before the caller's own results.
MergeRecFirst(o, res, recData) ==
    IF o.max # -1 /\ Len(res) + Len(recData) >= o.max
    THEN LET cut == o.max - Len(res)
         IN  IF cut < 0 \/ cut > Len(recData)
             THEN [res |-> res, returns |-> TRUE, panics |-> TRUE]
             ELSE [res |-> SubSeq(recData, 1, cut) \o res, returns |-> TRUE,
                   panics |-> FALSE]
    ELSE [res |-> recData \o res, returns |-> FALSE, panics |-> FALSE]

\* What find does with the result of a recursive call: the new res, whether
\* find returns at once, and whether the slice expression panics.
Merge(o, res, recData) ==
    IF o.max # -1 /\ Len(res) + Len(recData) >= o.max
    THEN LET cut == o.max - Len(res)
         IN  IF cut < 0 \/ cut > Len(recData)
             THEN [res |-> res, returns |-> TRUE, panics |-> TRUE]
             ELSE [res |-> res \o SubSeq(recData, 1, cut), returns |-> TRUE,
                   panics |-> FALSE]
    ELSE [res |-> res \o recData, returns |-> FALSE, panics |-> FALSE]

\* The error returned whatever the policy.
FindErrorIgnoresSkip(o, err) == err

\* The error find returns when resolvePath or os.ReadDir fails with err:
\* nil under skip.
FindError(o, err) == IF o.skip THEN "nil" ELSE err

\* A loop that never looks at the context.
CtxDoneNever == FALSE

\* Standard output after find met the error err: under skip and log the
\* error is printed.
LogError(o, err, o1) ==
    IF o.skip /\ o.log THEN Append(o1, <<"error:", err>>) ELSE o1

\* The select on ctx.Done() at the head of each iteration.
CtxDone == cancelled

\* The values of a result list, as the caller sees them.
Values(res) == [i \in 1..Len(res) |-> res[i].val]

\* The entries a result list was made from.
Nodes(res) == [i \in 1..Len(res) |-> res[i].node]

\* ----------------------------------------------------------------- actions
NoRet == [res |-> <<>>, err |-> "none"]

\* One call of find: the directory, its resolved path, its listing, the
\* index of the next entry, the results so far and whether it has returned.
Frame(d, p) ==
    [dir |-> d, path |-> p, data |-> ReadDir(tree, d), i |-> 1, res |-> <<>>,
     returns |-> FALSE]

\* The innermost call of find.
Top == stack[Len(stack)]

\* The innermost call is at the head of a loop iteration.
AtLoopHead ==
    /\ pc = "running"
    /\ unwinding = "none"
    /\ ~Top.returns
    /\ Top.i <= Len(Top.data)

\* The calling find leaving its loop after a skipped directory.
FailNestedStops(d, err, res1, out1) ==
    /\ failed' = failed \cup {<<d, err>>}
    /\ out' = LogError(opt, err, out1)
    /\ IF opt.skip
       THEN /\ stack' = [stack EXCEPT ![Len(stack)] =
                   [stack[Len(stack)] EXCEPT !.res = res1, !.returns = TRUE]]
            /\ UNCHANGED <<pc, unwinding>>
       ELSE /\ stack' = [stack EXCEPT ![Len(stack)] =
                   [stack[Len(stack)] EXCEPT !.res = res1]]
            /\ pc' = pc
            /\ unwinding' = err

\* What the calling find does when the nested call on d fails with err:
\* under skip the nested call returned (nil, nil), which is merged like any
\* other result; otherwise the error starts its way up.
FailNested(d, err, res1, out1) ==
    /\ failed' = failed \cup {<<d, err>>}
    /\ out' = LogError(opt, err, out1)
    /\ IF FindError(opt, err) = "nil"
       THEN LET m == Merge(opt, res1, <<>>)
            IN  /\ stack' = [stack EXCEPT ![Len(stack)] =
                       [Top EXCEPT !.res = m.res, !.i = Top.i + 1,
                                   !.returns = m.returns]]
                /\ pc' = IF m.panics THEN "panic" ELSE pc
                /\ unwinding' = unwinding
       ELSE /\ stack' = [stack EXCEPT ![Len(stack)] = [Top EXCEPT !.res = res1]]
            /\ pc' = pc
            /\ unwinding' = FindError(opt, err)

\* Find: the root is resolved, the options are applied, find is called on
\* the resolved root, which resolves it again and lists it.  A root that
\* does not resolve fails Find itself; a root that cannot be listed fails
\* find, whose result Find returns.
Find ==
    /\ pc = "idle"
    /\ startCancelled' = cancelled
    /\ \E outcome \in {"ok", "resolve", "readdir"} :
          CASE outcome = "ok" ->
                  /\ pc' = "running"
                  /\ stack' = <<Frame(Root, RootRes)>>
                  /\ listed' = Append(listed, Root)
                  /\ UNCHANGED <<ret, failed, out>>
            [] outcome = "resolve" ->
                  /\ pc' = "done"
                  /\ stack' = <<>>
                  /\ ret' = [res |-> <<>>, err |-> "resolve"]
                  /\ failed' = failed \cup {<<Root, "resolve">>}
                  /\ out' = out
                  /\ listed' = listed
            [] outcome = "readdir" ->
                  /\ pc' = "done"
                  /\ stack' = <<>>
                  /\ ret' = [res |-> <<>>, err |-> FindError(opt, "readdir")]
                  /\ failed' = failed \cup {<<Root, "readdir">>}
                  /\ out' = LogError(opt, "readdir", out)
                  /\ listed' = listed
    /\ UNCHANGED <<inputs, unwinding, cancelled, emitted, examined, observed>>
    /\ UNCHANGED <<streamVars, matchVars>>

\* The context is cancelled (or its deadline passes), before the call or at
\* any moment of it.
Cancel ==
    /\ pc \in {"idle", "running"}
    /\ ~cancelled
    /\ cancelled' = TRUE
    /\ UNCHANGED <<inputs, pc, stack, unwinding, ret, out, failed, emitted,
                   examined, observed, startCancelled>>
    /\ UNCHANGED <<listed, streamVars, matchVars>>

\* One iteration of find's loop that finds the context done: the call
\* returns (nil, ctx.Err()).
IterateCancelled ==
    /\ AtLoopHead
    /\ CtxDone
    /\ observed' = TRUE
    /\ unwinding' = "canceled"
    /\ stack' = SubSeq(stack, 1, Len(stack) - 1)
    /\ UNCHANGED <<inputs, pc, ret, cancelled, out, failed, emitted, examined,
                   startCancelled>>
    /\ UNCHANGED <<listed, streamVars, matchVars>>

\* One iteration of find's loop on the entry data[i], up to and including
\* the entry of the recursive call.  The templates and the outcome of the
\* match are computed once per step.
Iterate ==
    /\ AtLoopHead
    /\ ~CtxDone
    /\ LET f     == Top.data[Top.i]
           nm    == tree[f].name
           p     == Join(Top.path, nm)
       IN  \E ts \in {Templates(opt, pattern)} :
           \E acc \in {Accepts(opt, ts, p, nm, IsDir(tree, f))} :
           LET found == [node |-> f, val |-> Found(opt, p, nm)]
               res1  == IF acc THEN Append(Top.res, found) ELSE Top.res
               out1  == IF acc /\ opt.output THEN Append(out, found.val) ELSE out
           IN
           /\ examined' = examined + 1
           /\ emitted' = IF acc THEN emitted + 1 ELSE emitted
           /\ IF acc /\ CapReached(opt, Len(res1))
              THEN /\ stack' = [stack EXCEPT ![Len(stack)] =
                          [Top EXCEPT !.res = res1, !.returns = TRUE]]
                   /\ out' = out1
                   /\ UNCHANGED <<pc, unwinding, failed, listed>>
              ELSE IF opt.rec /\ IsDir(tree, f)
              THEN \E outcome \in {"ok", "resolve", "readdir"} :
                      IF outcome = "ok"
                      THEN /\ stack' = Append(
                                  [stack EXCEPT ![Len(stack)] =
                                      [Top EXCEPT !.res = res1, !.i = Top.i + 1]],
                                  Frame(ResolvedDir(tree, f),
                                        resolvePath(tree, f, p)))
                           /\ listed' = Append(listed, ResolvedDir(tree, f))
                           /\ out' = out1
                           /\ UNCHANGED <<pc, unwinding, failed>>
                      ELSE FailNested(f, outcome, res1, out1) /\ listed' = listed
              ELSE /\ stack' = [stack EXCEPT ![Len(stack)] =
                          [Top EXCEPT !.res = res1, !.i = Top.i + 1]]
                   /\ out' = out1
                   /\ UNCHANGED <<pc, unwinding, failed, listed>>
    /\ UNCHANGED <<inputs, ret, cancelled, observed, startCancelled>>
    /\ UNCHANGED <<streamVars, matchVars>>

\* A call of find returns its list: to Find's caller from the outermost
\* call, otherwise to the calling find, which merges it under the cap.
Return ==
    /\ pc = "running"
    /\ unwinding = "none"
    /\ Top.returns \/ Top.i > Len(Top.data)
    /\ IF Len(stack) = 1
       THEN /\ pc' = "done"
            /\ stack' = <<>>
            /\ ret' = [res |-> Top.res, err |-> "nil"]
       ELSE LET caller == stack[Len(stack) - 1]
                m      == Merge(opt, caller.res, Top.res)
            IN  /\ stack' = [SubSeq(stack, 1, Len(stack) - 1)
                               EXCEPT ![Len(stack) - 1] =
                                 [caller EXCEPT !.res = m.res,
                                                !.returns = m.returns]]
                /\ pc' = IF m.panics THEN "panic" ELSE pc
                /\ ret' = ret
    /\ UNCHANGED <<inputs, unwinding, cancelled, out, failed, emitted, examined,
                   observed, startCancelled>>
    /\ UNCHANGED <<listed, streamVars, matchVars>>

\* A caller under skip dropping the error of the call it made and going on
\* with its loop.
PropagateSwallowsUnderSkip ==
    /\ pc = "running"
    /\ unwinding # "none"
    /\ IF stack = <<>>
       THEN /\ pc' = "done"
            /\ ret' = [res |-> <<>>, err |-> unwinding]
            /\ UNCHANGED <<stack, unwinding>>
       ELSE IF opt.skip
       THEN /\ unwinding' = "none"
            /\ UNCHANGED <<stack, pc, ret>>
       ELSE /\ stack' = SubSeq(stack, 1, Len(stack) - 1)
            /\ UNCHANGED <<pc, ret, unwinding>>
    /\ UNCHANGED <<inputs, cancelled, out, failed, emitted, examined,
                   observed, startCancelled>>
    /\ UNCHANGED <<listed, streamVars, matchVars>>

\* A call that got an error from the call it made returns (nil, err); from
\* the outermost call the error reaches Find's caller.
Propagate ==
    /\ pc = "running"
    /\ unwinding # "none"
    /\ IF stack = <<>>
       THEN /\ pc' = "done"
            /\ ret' = [res |-> <<>>, err |-> unwinding]
            /\ stack' = stack
       ELSE /\ stack' = SubSeq(stack, 1, Len(stack) - 1)
            /\ UNCHANGED <<pc, ret>>
    /\ UNCHANGED <<inputs, unwinding, cancelled, out, failed, emitted, examined,
                   observed, startCancelled>>
    /\ UNCHANGED <<listed, streamVars, matchVars>>

\* NewTemplate(tFilter).Match(tCand)
TemplateMatch ==
    /\ tRes = <<>>
    /\ tRes' = <<Match(NewTemplate(tFilter), tCand)>>
    /\ UNCHANGED <<tFilter, tCand>>
    /\ UNCHANGED findVars

\* MatchAny(ts, tCand) and MatchAll(ts, tCand) for ts = NewTemplates(pattern).
TemplatesMatch ==
    /\ pc = "off"
    /\ tRes = <<>>
    /\ LET ts == NewTemplates(pattern)
       IN  tRes' = <<MatchAny(ts, tCand), MatchAll(ts, tCand)>>
    /\ UNCHANGED <<tFilter, tCand>>
    /\ UNCHANGED findVars

\* ------------------------------------------------------------ output sink
\* The output fields of the options with writers: output is the io.Writer,
\* os.Stdout by default, and out says whether results are printed.
outputOptions == [output |-> "os.Stdout", out |-> FALSE]

\* WithOutput
WithOutput(o) == [o EXCEPT !.out = TRUE]

\* WithWriter(w)
WithWriter(o, w) == [o EXCEPT !.output = w, !.out = TRUE]

\* options.printOutput(str), on the sinks [stdout, w]: fmt.Println writes its
\* operands, the writer itself and str, as one line to standard output.
printOutput(o, str, sinks) ==
    IF o.out
    THEN [sinks EXCEPT !.stdout = Append(sinks.stdout, <<o.output, str>>)]
    ELSE sinks

\* Most results handed to printOutput in SpecOutput.
MaxPrints == 2

\* An accepted result str is handed to printOutput.
PrintOutput ==
    /\ pc = "off"
    /\ emitted < MaxPrints
    /\ \E str \in StringsUpTo(Letters, MaxLit) \ {<<>>} :
          LET sinks == printOutput(opt, str, [stdout |-> out, w |-> wOut])
          IN  /\ out' = sinks.stdout
              /\ wOut' = sinks.w
              /\ ret' = [ret EXCEPT !.res = Append(ret.res, str)]
    /\ emitted' = emitted + 1
    /\ UNCHANGED <<inputs, pc, stack, unwinding, cancelled, failed, examined,
                   observed, startCancelled, iterCh, errCh, iterClosed,
                   errClosed, remaining>>
    /\ UNCHANGED <<listed, matchVars>>

\* ---------------------------------------------------------- streaming mode
\* The options of a streaming call: those of a batch call and the capacity of
\* the iterator channel.
WithMaxIterator(o, max) == o @@ ("maxIter" :> max)

\* The worker is about to end: the error, if any, is kept for the error
\* channel.
StreamEnd(err) ==
    /\ pc' = "closing"
    /\ stack' = <<>>
    /\ ret' = [res |-> <<>>, err |-> err]

\* FindWithIterator: the channels are made and the worker is started on the
\* root; a root that does not resolve or list ends the traversal with the
\* error.
FindWithIterator ==
    /\ pc = "idle"
    /\ startCancelled' = cancelled
    /\ remaining' = opt.max
    /\ \E outcome \in {"ok", "resolve", "readdir"} :
          IF outcome = "ok"
          THEN /\ pc' = "running"
               /\ stack' = <<Frame(Root, RootRes)>>
               /\ UNCHANGED <<ret, failed>>
          ELSE /\ StreamEnd(outcome)
               /\ failed' = failed \cup {<<Root, outcome>>}
    /\ UNCHANGED <<inputs, unwinding, cancelled, out, emitted, examined,
                   observed, wOut, iterCh, errCh, iterClosed, errClosed>>
    /\ UNCHANGED <<listed, matchVars>>

\* The worker ending on cancellation without closing the channels.
StreamCancelledNoClose ==
    /\ AtLoopHead
    /\ CtxDone
    /\ observed' = TRUE
    /\ pc' = "done"
    /\ stack' = <<>>
    /\ ret' = [res |-> <<>>, err |-> "canceled"]
    /\ UNCHANGED <<inputs, unwinding, cancelled, out, failed, emitted, examined,
                   startCancelled, streamVars>>
    /\ UNCHANGED <<listed, matchVars>>

\* The worker finds the context done at the head of an iteration: the
\* traversal ends with the cancellation error.
StreamCancelled ==
    /\ AtLoopHead
    /\ CtxDone
    /\ observed' = TRUE
    /\ StreamEnd("canceled")
    /\ UNCHANGED <<inputs, unwinding, cancelled, out, failed, emitted, examined,
                   startCancelled, streamVars>>
    /\ UNCHANGED <<listed, matchVars>>

\* One iteration of the worker on the entry data[i]: an accepted entry is
\* sent to the iterator channel, which blocks while the channel is full, and
\* counted against the cap; then the entry is entered if it is a directory.
\* The templates and the outcome of the match are computed once per step.
StreamIterate ==
    /\ AtLoopHead
    /\ ~CtxDone
    /\ LET f    == Top.data[Top.i]
           nm   == tree[f].name
           p    == Join(Top.path, nm)
           next == [stack EXCEPT ![Len(stack)] = [Top EXCEPT !.i = Top.i + 1]]
       IN  \E ts \in {Templates(opt, pattern)} :
           \E acc \in {Accepts(opt, ts, p, nm, IsDir(tree, f))} :
           LET rem == IF acc /\ remaining # -1 THEN remaining - 1 ELSE remaining
           IN
           /\ acc => Len(iterCh) < opt.maxIter
           /\ examined' = examined + 1
           /\ emitted' = IF acc THEN emitted + 1 ELSE emitted
           /\ iterCh' = IF acc THEN Append(iterCh, Found(opt, p, nm)) ELSE iterCh
           /\ remaining' = rem
           /\ IF rem = 0
              THEN StreamEnd("nil") /\ failed' = failed
              ELSE IF opt.rec /\ IsDir(tree, f)
              THEN \E outcome \in {"ok", "resolve", "readdir"} :
                      IF outcome = "ok"
                      THEN /\ stack' = Append(next, Frame(ResolvedDir(tree, f),
                                                          resolvePath(tree, f, p)))
                           /\ UNCHANGED <<pc, ret, failed>>
                      ELSE /\ failed' = failed \cup {<<f, outcome>>}
                           /\ IF opt.skip
                              THEN stack' = next /\ UNCHANGED <<pc, ret>>
                              ELSE StreamEnd(outcome)
              ELSE /\ stack' = next
                   /\ UNCHANGED <<pc, ret, failed>>
    /\ UNCHANGED <<inputs, unwinding, cancelled, out, observed, startCancelled,
                   wOut, errCh, iterClosed, errClosed>>
    /\ UNCHANGED <<listed, matchVars>>

\* The worker has gone through a directory: it goes on with the directory
\* above, and the traversal is complete after the root.
StreamReturn ==
    /\ pc = "running"
    /\ stack # <<>>
    /\ Top.i > Len(Top.data)
    /\ IF Len(stack) = 1
       THEN StreamEnd("nil")
       ELSE /\ stack' = SubSeq(stack, 1, Len(stack) - 1)
            /\ UNCHANGED <<pc, ret>>
    /\ UNCHANGED <<inputs, unwinding, cancelled, out, failed, emitted, examined,
                   observed, startCancelled, streamVars>>
    /\ UNCHANGED <<listed, matchVars>>

\* The end of the worker: the error, if any, goes to the error channel and
\* both channels are closed.
StreamClose ==
    /\ pc = "closing"
    /\ pc' = "done"
    /\ errCh' = IF ret.err = "nil" THEN errCh ELSE Append(errCh, ret.err)
    /\ iterClosed' = TRUE
    /\ errClosed' = TRUE
    /\ UNCHANGED <<inputs, stack, unwinding, ret, cancelled, out, failed,
                   emitted, examined, observed, startCancelled, wOut, iterCh,
                   remaining>>
    /\ UNCHANGED <<listed, matchVars>>

\* The caller receives one result from the iterator channel.
Receive ==
    /\ iterCh # <<>>
    /\ iterCh' = Tail(iterCh)
    /\ UNCHANGED <<inputs, pc, stack, unwinding, ret, cancelled, out, failed,
                   emitted, examined, observed, startCancelled, wOut, errCh,
                   iterClosed, errClosed, remaining>>
    /\ UNCHANGED <<listed, matchVars>>

\* ---------------------------------------------------------- specifications
\* The filter strings of the traversals.
Filters == { <<"*">>, <<"*", "b">> }

\* The template arguments of Find: one string.
Patterns == {<<f>> : f \in Filters}

\* The results caps: none (-1, the default) or Max(n).
Caps == {-1} \cup 1..MaxCap

\* The option records the traversals run under: Only, Recursively,
\* MatchFullPath, WithErrorsSkip and Max vary, WithOutput is set.
OptionSets ==
    {[defaultOptions EXCEPT !.fType = ft, !.rec = r, !.full = fl, !.skip = sk,
                            !.max = mx, !.output = TRUE] :
        ft \in {File, Folder, Both}, r \in BOOLEAN, fl \in BOOLEAN,
        sk \in BOOLEAN, mx \in Caps}

\* No writer written to, no channel made.
NoStream ==
    /\ wOut = <<>>
    /\ iterCh = <<>>
    /\ errCh = <<>>
    /\ iterClosed = FALSE
    /\ errClosed = FALSE
    /\ remaining = -1

\* No call of Find: the state of the traversal in SpecMatch.
NoFind ==
    /\ tree = <<>>
    /\ pattern = <<>>
    /\ opt = defaultOptions
    /\ pc = "off"
    /\ stack = <<>>
    /\ unwinding = "none"
    /\ ret = NoRet
    /\ cancelled = FALSE
    /\ out = <<>>
    /\ failed = {}
    /\ emitted = 0
    /\ examined = 0
    /\ observed = FALSE
    /\ startCancelled = FALSE
    /\ NoStream
    /\ listed = <<>>

\* A call of Find about to be made.
Init ==
    /\ tree \in Trees
    /\ pattern \in Patterns
    /\ opt \in OptionSets
    /\ pc = "idle"
    /\ stack = <<>>
    /\ unwinding = "none"
    /\ ret = NoRet
    /\ cancelled = FALSE
    /\ out = <<>>
    /\ failed = {}
    /\ emitted = 0
    /\ examined = 0
    /\ observed = FALSE
    /\ startCancelled = FALSE
    /\ NoStream
    /\ listed = <<>>
    /\ tFilter = <<>>
    /\ tCand = <<>>
    /\ tRes = <<FALSE>>

Next == Find \/ Cancel \/ IterateCancelled \/ Iterate \/ Return \/ Propagate

Spec == Init /\ [][Next]_vars

\* The literals of the filter strings: non-empty, without '!', '*', '&', '|'.
Literals == StringsUpTo(Chars, MaxLit) \ {<<>>}

\* The leaves built on the literal x.
LeafForms(x) ==
    { x, <<"!">> \o x, <<"*">> \o x, x \o <<"*">>, <<"*">> \o x \o <<"*">>,
      <<"!", "*">> \o x, <<"!">> \o x \o <<"*">>, <<"!", "*">> \o x \o <<"*">> }

\* The filter strings of SpecMatch.
TFilters == UNION {LeafForms(x) : x \in Literals}
            \cup { <<"*">>, <<"!", "*">>, <<"!">>, <<>> }

\* A template and a candidate about to be matched.
InitMatch ==
    /\ NoFind
    /\ tFilter \in TFilters
    /\ tCand \in StringsUpTo(Chars, MaxLen)
    /\ tRes = <<>>

NextMatch == TemplateMatch

SpecMatch == InitMatch /\ [][NextMatch]_vars

\* Most templates in a template set of SpecSet.
MaxSet == 2

\* The filter strings of the template sets.
SetFilters ==
    { <<"*", "a", "*">>, <<"*", "b", "*">>, <<"a">>, <<"!", "b">>,
      <<"a", "*">>, <<"*">> }

\* A template set and a candidate about to be matched.
InitSet ==
    /\ tree = <<>>
    /\ pattern \in StringsUpTo(SetFilters, MaxSet)
    /\ opt = defaultOptions
    /\ pc = "off"
    /\ stack = <<>>
    /\ unwinding = "none"
    /\ ret = NoRet
    /\ cancelled = FALSE
    /\ out = <<>>
    /\ failed = {}
    /\ emitted = 0
    /\ examined = 0
    /\ observed = FALSE
    /\ startCancelled = FALSE
    /\ NoStream
    /\ listed = <<>>
    /\ tFilter = <<>>
    /\ tCand \in StringsUpTo(Chars, MaxLen)
    /\ tRes = <<>>

NextSet == TemplatesMatch

SpecSet == InitSet /\ [][NextSet]_vars

\* The leaves of the compound filter strings.
ChainLeaves ==
    { <<"a">>, <<"*", "a", "*">>, <<"!", "b">>, <<"b", "*">>, <<"*", "b">> }

\* The compound filter strings: three leaves joined by two operators.
ChainFilters ==
    { A \o <<o1>> \o B \o <<o2>> \o C :
        A \in ChainLeaves, B \in ChainLeaves, C \in ChainLeaves,
        o1 \in {"&", "|"}, o2 \in {"&", "|"} }

\* A compound filter and a candidate about to be matched.
InitChain ==
    /\ NoFind
    /\ tFilter \in ChainFilters
    /\ tCand \in StringsUpTo(Chars, MaxLen)
    /\ tRes = <<>>

NextChain == TemplateMatch

SpecChain == InitChain /\ [][NextChain]_vars

\* The option records with RelativePaths: Only, Recursively and Max vary.
RelativeOptionSets ==
    {[defaultOptions EXCEPT !.relative = TRUE, !.fType = ft, !.rec = r,
                            !.max = mx, !.output = TRUE] :
        ft \in {File, Folder, Both}, r \in BOOLEAN, mx \in Caps}

\* A call of Find with RelativePaths about to be made.
InitRelative ==
    /\ tree \in Trees
    /\ pattern \in Patterns
    /\ opt \in RelativeOptionSets
    /\ pc = "idle"
    /\ stack = <<>>
    /\ unwinding = "none"
    /\ ret = NoRet
    /\ cancelled = FALSE
    /\ out = <<>>
    /\ failed = {}
    /\ emitted = 0
    /\ examined = 0
    /\ observed = FALSE
    /\ startCancelled = FALSE
    /\ NoStream
    /\ listed = <<>>
    /\ tFilter = <<>>
    /\ tCand = <<>>
    /\ tRes = <<FALSE>>

SpecRelative == InitRelative /\ [][Next]_vars

\* The option records of the traversals of trees with links: Only,
\* Recursively, WithErrorsSkip and Max vary.
LinkOptionSets ==
    {[defaultOptions EXCEPT !.fType = ft, !.rec = r, !.skip = sk, !.max = mx,
                            !.output = TRUE] :
        ft \in {File, Folder, Both}, r \in BOOLEAN, sk \in BOOLEAN, mx \in Caps}

\* A call of Find on a tree with a symbolic link about to be made.
InitLinks ==
    /\ tree \in LinkTrees
    /\ pattern \in Patterns
    /\ opt \in LinkOptionSets
    /\ pc = "idle"
    /\ stack = <<>>
    /\ unwinding = "none"
    /\ ret = NoRet
    /\ cancelled = FALSE
    /\ out = <<>>
    /\ failed = {}
    /\ emitted = 0
    /\ examined = 0
    /\ observed = FALSE
    /\ startCancelled = FALSE
    /\ NoStream
    /\ listed = <<>>
    /\ tFilter = <<>>
    /\ tCand = <<>>
    /\ tRes = <<FALSE>>

SpecLinks == InitLinks /\ [][Next]_vars

\* The option records of the recursive calls on trees with links back to an
\* ancestor: Recursively and WithOutput are set, WithErrorsSkip and Max vary.
LoopOptionSets ==
    {[defaultOptions EXCEPT !.rec = TRUE, !.skip = sk, !.max = mx,
                            !.output = TRUE] :
        sk \in BOOLEAN, mx \in Caps}

\* A recursive call of Find on a tree with links back to an ancestor about to
\* be made, under a context that is never cancelled.
InitLoops ==
    /\ tree \in BackLinkTrees
    /\ pattern \in Patterns
    /\ opt \in LoopOptionSets
    /\ pc = "idle"
    /\ stack = <<>>
    /\ unwinding = "none"
    /\ ret = NoRet
    /\ cancelled = FALSE
    /\ out = <<>>
    /\ failed = {}
    /\ emitted = 0
    /\ examined = 0
    /\ observed = FALSE
    /\ startCancelled = FALSE
    /\ NoStream
    /\ listed = <<>>
    /\ tFilter = <<>>
    /\ tCand = <<>>
    /\ tRes = <<FALSE>>

\* The steps of a call whose context is never cancelled.
NextLoops == Find \/ Iterate \/ Return \/ Propagate

\* The calling goroutine keeps running: a step that can be taken is taken.
SpecLoops == InitLoops /\ [][NextLoops]_vars /\ WF_vars(NextLoops)

\* The options of SpecOutput: the defaults, WithOutput, WithWriter(w).
OutputOptionSets ==
    { outputOptions, WithOutput(outputOptions), WithWriter(outputOptions, "w") }

\* Results about to be handed to printOutput.
InitOutput ==
    /\ tree = <<>>
    /\ pattern = <<>>
    /\ opt \in OutputOptionSets
    /\ pc = "off"
    /\ stack = <<>>
    /\ unwinding = "none"
    /\ ret = NoRet
    /\ cancelled = FALSE
    /\ out = <<>>
    /\ failed = {}
    /\ emitted = 0
    /\ examined = 0
    /\ observed = FALSE
    /\ startCancelled = FALSE
    /\ NoStream
    /\ listed = <<>>
    /\ tFilter = <<>>
    /\ tCand = <<>>
    /\ tRes = <<FALSE>>

NextOutput == PrintOutput

SpecOutput == InitOutput /\ [][NextOutput]_vars

\* Largest capacity of the iterator channel.
MaxQueue == 2

\* Largest number of entries of a tree traversed in streaming mode.
MaxStreamNodes == 2

\* The option records of the streaming calls: Recursively, WithErrorsSkip,
\* Max and WithMaxIterator vary.
StreamOptionSets ==
    {WithMaxIterator([defaultOptions EXCEPT !.rec = r, !.skip = sk, !.max = mx], q) :
        r \in BOOLEAN, sk \in BOOLEAN, mx \in Caps, q \in 1..MaxQueue}

\* A call of FindWithIterator about to be made.
InitStream ==
    /\ tree \in {t \in Trees : Len(t) <= MaxStreamNodes}
    /\ pattern \in Patterns
    /\ opt \in StreamOptionSets
    /\ pc = "idle"
    /\ stack = <<>>
    /\ unwinding = "none"
    /\ ret = NoRet
    /\ cancelled = FALSE
    /\ out = <<>>
    /\ failed = {}
    /\ emitted = 0
    /\ examined = 0
    /\ observed = FALSE
    /\ startCancelled = FALSE
    /\ NoStream
    /\ listed = <<>>
    /\ tFilter = <<>>
    /\ tCand = <<>>
    /\ tRes = <<FALSE>>

\* The steps of the worker.
Worker ==
    FindWithIterator \/ StreamCancelled \/ StreamIterate \/ StreamReturn
        \/ StreamClose

NextStream == Worker \/ Cancel \/ Receive

\* The worker runs whenever it can and the caller keeps receiving.
SpecStream ==
    InitStream /\ [][NextStream]_vars /\ WF_vars(Worker) /\ WF_vars(Receive)

\* ------------------------------------------------------------------ claims
\* s contains x as a substring.
IsSubstring(x, s) == \E i \in 1..(Len(s) - Len(x) + 1) : SubSeq(s, i, i + Len(x) - 1) = x

\* The candidate has no path separator.
SeparatorFree(s) == \A i \in 1..Len(s) : s[i] # pathSeparator

\* C8: for every candidate s and every literal x, NewTemplate("*x*").Match(s)
\* is true exactly when s contains x as a substring.
C8_ContainsIffMatch ==
    \A x \in Literals :
        (tFilter = <<"*">> \o x \o <<"*">> /\ tRes # <<>>)
            => (tRes[1] <=> IsSubstring(x, tCand))

\* "*a*" was matched against "bab", which contains "a" in its middle, and
\* against nothing else.
C8_Witness ==
    /\ tFilter = <<"*", "a", "*">>
    /\ tCand = <<"b", "a", "b">>
    /\ tRes = <<TRUE>>

\* C9: NewTemplate("!x").Match(s) is true for every candidate s other than x
\* and false for x itself.
C9_NotMatchesAllButX ==
    \A x \in Literals :
        (tFilter = <<"!">> \o x /\ tRes # <<>>) => (tRes[1] <=> tCand # x)

\* C10: a bare literal matches a separator-free candidate only when the
\* candidate is the literal itself.
C10_BareLiteralExact ==
    \A x \in Literals :
        (tFilter = x /\ tRes # <<>> /\ SeparatorFree(tCand) /\ tRes[1])
            => tCand = x

\* C11: NewTemplate("*x").Match(s) is true for a separator-free candidate s
\* exactly when s ends with x, however often x occurs in s.
C11_StarPrefixIffEndsWith ==
    \A x \in Literals :
        (tFilter = <<"*">> \o x /\ tRes # <<>> /\ SeparatorFree(tCand))
            => (tRes[1] <=> HasSuffix(tCand, x))

\* The first occurrence of x in s is at the start of s or right after a path
\* separator.
FirstAtBoundary(x, s) ==
    \E i \in 1..(Len(s) - Len(x) + 1) :
        /\ SubSeq(s, i, i + Len(x) - 1) = x
        /\ \A j \in 1..(i - 1) : SubSeq(s, j, j + Len(x) - 1) # x
        /\ (i = 1 \/ s[i - 1] = pathSeparator)

\* C12: NewTemplate("x*").Match(s) is true exactly when the first occurrence
\* of x in s is at the start of s or immediately after a path separator.
C12_PrefixAtBoundary ==
    \A x \in Literals :
        (tFilter = x \o <<"*">> /\ tRes # <<>>)
            => (tRes[1] <=> FirstAtBoundary(x, tCand))

\* "a*" was matched against "b/ab", where "a" first occurs right after the
\* separator, and matched.
C12_Witness ==
    /\ tFilter = <<"a", "*">>
    /\ tCand = <<"b", pathSeparator, "a", "b">>
    /\ tRes = <<TRUE>>

\* The sequence s in the opposite order.
Reverse(s) == [i \in 1..Len(s) |-> s[Len(s) + 1 - i]]

\* C13: MatchAny is the disjunction and MatchAll the conjunction of the
\* templates' own matches, and neither depends on the order of the templates.
C13_AnyAllAreOrAnd ==
    tRes # <<>>
        => LET one(i) == Match(NewTemplate(pattern[i]), tCand)
               rev    == NewTemplates(Reverse(pattern))
           IN  /\ tRes[1] <=> \E i \in 1..Len(pattern) : one(i)
               /\ tRes[2] <=> \A i \in 1..Len(pattern) : one(i)
               /\ tRes[1] <=> MatchAny(rev, tCand)
               /\ tRes[2] <=> MatchAll(rev, tCand)

\* The set ["*a*", "*b*"] was matched against "aa": one template matches it,
\* the other does not.
C13_Witness ==
    /\ pattern = << <<"*", "a", "*">>, <<"*", "b", "*">> >>
    /\ tCand = <<"a", "a">>
    /\ tRes = <<TRUE, FALSE>>

RECURSIVE OneContinuation(_)
\* No node of the template t has both continuations set.
OneContinuation(t) ==
    /\ (t.and = NoTemplate \/ t.or = NoTemplate)
    /\ (t.and # NoTemplate => OneContinuation(t.and))
    /\ (t.or # NoTemplate => OneContinuation(t.or))

\* The three leaves of the filter string "A o1 B o2 C" and its two operators.
ChainParts(str) ==
    LET i    == IndexSep(str)
        rest == SubSeq(str, i + 1, Len(str))
        j    == IndexSep(rest)
    IN  [A |-> SubSeq(str, 1, i - 1), o1 |-> str[i],
         B |-> SubSeq(rest, 1, j - 1), o2 |-> rest[j],
         C |-> SubSeq(rest, j + 1, Len(rest))]

\* C19: no node built by NewTemplate has both continuations, and a filter
\* string is evaluated right-nested: "A&B|C" matches iff A and (B or C),
\* "A|B&C" matches iff A or (B and C), the leaves taken on their own.
C19_RightNested ==
    tRes # <<>>
        => LET p    == ChainParts(tFilter)
               L(x) == Match(parse(x), tCand)
           IN  /\ OneContinuation(NewTemplate(tFilter))
               /\ (p.o1 = "&" /\ p.o2 = "|")
                     => (tRes[1] <=> (L(p.A) /\ (L(p.B) \/ L(p.C))))
               /\ (p.o1 = "|" /\ p.o2 = "&")
                     => (tRes[1] <=> (L(p.A) \/ (L(p.B) /\ L(p.C))))

\* "a&b*|*b" was matched against "b": the first leaf fails and the last one
\* matches, and the filter does not match.
C19_Witness ==
    /\ tFilter = <<"a", "&", "b", "*", "|", "*", "b">>
    /\ tCand = <<"b">>
    /\ tRes = <<FALSE>>

\* The directories whose resolvePath or os.ReadDir failed.
FailedDirs == {f[1] : f \in failed}

\* The entries a traversal has to consider when the directories in bad have
\* no entries: the root's own entries, and with recursion every entry
\* beneath them.
Considered(bad) ==
    IF opt.rec
    THEN {k \in 1..Len(tree) : Ancestors(tree, k) \cap bad = {}}
    ELSE {k \in 1..Len(tree) : tree[k].parent = Root}

\* Entry k passes the type filter.
TypePasses(k) ==
    \/ opt.fType = Both
    \/ (opt.fType = File /\ tree[k].kind # "dir")
    \/ (opt.fType = Folder /\ tree[k].kind = "dir")

\* The match target of entry k matches the template set.
TargetMatches(k) ==
    LET target == IF opt.full THEN PathOf(tree, k) ELSE tree[k].name
    IN  matchFunc(opt, NewTemplates(pattern), target)

\* The entries a traversal has to report.
Wanted(bad) == {k \in Considered(bad) : TypePasses(k) /\ TargetMatches(k)}

\* The numbers of S in increasing order.
Sorted(S) ==
    [i \in 1..Cardinality(S) |-> CHOOSE k \in S : Cardinality({j \in S : j < k}) = i - 1]

\* The first n elements of s, all of them when n is -1.
Take(s, n) == IF n = -1 \/ n >= Len(s) THEN s ELSE SubSeq(s, 1, n)

\* The call has returned without an error.
Succeeded == pc = "done" /\ ret.err = "nil"

\* C1: with no cap, no failed directory and no cancellation seen, Find
\* returns one result for each considered entry that passes the type filter
\* and whose match target matches, no other result and none twice.
C1_ExactlyTheMatches ==
    (Succeeded /\ opt.max = -1 /\ failed = {})
        => /\ {ret.res[i].node : i \in 1..Len(ret.res)} = Wanted({})
           /\ Len(ret.res) = Cardinality(Wanted({}))
           /\ \A i \in 1..Len(ret.res) : ret.res[i].val = PathOf(tree, ret.res[i].node)

\* A recursive uncapped call returned an entry of a subdirectory and left out
\* an entry it considered.
C1_Witness ==
    /\ Succeeded /\ opt.max = -1 /\ failed = {} /\ opt.rec
    /\ \E i \in 1..Len(ret.res) : tree[ret.res[i].node].parent # Root
    /\ Considered({}) \ Wanted({}) # {}

\* C2: when K entries match and Max(N) is set with 1 <= N <= K, a call that
\* meets no failure and sees no cancellation returns exactly N results.
C2_ExactlyCapResults ==
    (Succeeded /\ failed = {} /\ opt.max >= 1
        /\ Cardinality(Wanted({})) >= opt.max)
        => Len(ret.res) = opt.max

\* A recursive call capped at 2 on a tree with 3 matching entries returned 2
\* results, one of them from a subdirectory.
C2_Witness ==
    /\ Succeeded /\ failed = {} /\ opt.rec
    /\ opt.max = 2 /\ Cardinality(Wanted({})) = 3
    /\ Len(ret.res) = 2
    /\ \E i \in 1..Len(ret.res) : tree[ret.res[i].node].parent # Root

\* C3: once Max(N) results have been appended, no further entry is examined
\* at any level of the recursion.
C3_NoEntryAfterCap ==
    [][(opt.max >= 1 /\ emitted >= opt.max) => examined' = examined]_vars

\* C4: when the check at the head of an iteration finds the context done,
\* Find returns the context's error and no result, so no more results than
\* the same call returns when it is not cancelled.
C4_CancelReturnsNoResults ==
    /\ (observed /\ pc = "done")
          => /\ ret = [res |-> <<>>, err |-> "canceled"]
             /\ Len(ret.res) <= Cardinality(Wanted({}))
    /\ (observed /\ pc = "running") => unwinding = "canceled"

\* Under skip, a recursive call was cancelled three directories deep, after
\* two entries were examined and results had been collected.
C4_Witness ==
    /\ pc = "done" /\ observed /\ ret.err = "canceled"
    /\ opt.skip /\ opt.rec /\ opt.max = -1 /\ failed = {}
    /\ Len(tree) = 3 /\ tree[3].parent = 2
    /\ examined = 2 /\ emitted >= 1

\* The root was resolved and listed.
RootListed == Root \notin FailedDirs

\* C5 as stated: a call that starts with the context done on a root that
\* resolves and lists never returns without the context's error.
C5_PreCancelledAlwaysFails ==
    (pc = "done" /\ startCancelled /\ RootListed) => ret.err = "canceled"

\* C5, amended: a call that starts with the context done on a root that
\* resolves and lists returns the context's error and no result when the
\* root has an entry, and an empty result without error when it has none.
C5_PreCancelledFailsOnEntries ==
    (pc = "done" /\ startCancelled /\ RootListed)
        => ret = [res |-> <<>>,
                  err |-> IF ReadDir(tree, Root) # <<>> THEN "canceled" ELSE "nil"]

\* A call under skip that started with the context done on a root with
\* entries returned the context's error.
C5_Witness ==
    /\ pc = "done" /\ startCancelled /\ RootListed /\ opt.skip
    /\ ReadDir(tree, Root) # <<>>
    /\ ret.err = "canceled"

\* C6 as stated: when the root cannot be listed, Find returns an error under
\* either policy.
C6_RootListingAlwaysFatal ==
    (pc = "done" /\ <<Root, "readdir">> \in failed) => ret.err \notin {"nil", "none"}

\* C6, amended: when the root cannot be listed, Find returns the listing
\* error under the default policy and an empty result without error under
\* skip; a root that does not resolve is an error under either policy.
C6_RootListingFatalUnlessSkip ==
    /\ (pc = "done" /\ <<Root, "readdir">> \in failed)
          => ret = [res |-> <<>>, err |-> IF opt.skip THEN "nil" ELSE "readdir"]
    /\ (pc = "done" /\ <<Root, "resolve">> \in failed)
          => ret = [res |-> <<>>, err |-> "resolve"]

\* Under skip, a root with entries that could not be listed gave an empty
\* result and no error.
C6_Witness ==
    /\ pc = "done" /\ opt.skip /\ <<Root, "readdir">> \in failed
    /\ Len(tree) > 0
    /\ ret = [res |-> <<>>, err |-> "nil"]

\* C7: under skip a subdirectory that fails to resolve or list gives no
\* error, and the results are those of the tree in which that subdirectory is
\* empty; under the default policy the call returns that error and no result.
C7_SkippedDirIsEmpty ==
    /\ (Succeeded /\ opt.skip /\ RootListed)
          => Nodes(ret.res) = Take(Sorted(Wanted(FailedDirs)), opt.max)
    /\ (pc = "done" /\ opt.skip /\ RootListed) => ret.err \in {"nil", "canceled"}
    /\ \A f \in failed :
          (pc = "done" /\ ~opt.skip /\ f[1] # Root)
              => ret = [res |-> <<>>, err |-> f[2]]

\* Under skip, a subdirectory with entries failed; the call returned the
\* subdirectory's own entry and a later entry of the same directory, and
\* nothing from beneath the subdirectory.
C7_Witness ==
    /\ Succeeded /\ opt.skip
    /\ \E f \in FailedDirs :
          /\ f # Root
          /\ \E k \in 1..Len(tree) : tree[k].parent = f
          /\ \E i, j \in 1..Len(ret.res) :
                /\ ret.res[i].node = f
                /\ ret.res[j].node > f
                /\ tree[ret.res[j].node].parent = tree[f].parent

RECURSIVE PreOrder(_)
\* The entries ks and, with recursion, what lies beneath them, depth first:
\* an entry, then what is beneath it, then its later siblings.
PreOrder(ks) ==
    IF ks = <<>> THEN <<>>
    ELSE <<Head(ks)>>
         \o (IF opt.rec /\ tree[Head(ks)].kind = "dir"
             THEN PreOrder(ReadDir(tree, Head(ks)))
             ELSE <<>>)
         \o PreOrder(Tail(ks))

\* The entries an uncapped call has to report, in depth-first pre-order.
WantedInOrder ==
    SelectSeq(PreOrder(ReadDir(tree, Root)),
              LAMBDA k : TypePasses(k) /\ TargetMatches(k))

\* C18: a call that meets no failure and sees no cancellation returns the
\* matching entries in depth-first pre-order when it has no cap, and the
\* first min(N, K) of that list, in the same order, under Max(N).
C18_CappedIsPrefixOfUncapped ==
    (Succeeded /\ failed = {})
        => /\ Nodes(ret.res) = Take(WantedInOrder, opt.max)
           /\ \A i \in 1..Len(ret.res) :
                 ret.res[i].val = PathOf(tree, ret.res[i].node)

\* A recursive call capped at 2 on a directory holding one entry, followed by
\* a sibling, all three matching: it returned the directory and the entry
\* beneath it, and not the sibling.
C18_Witness ==
    /\ Succeeded /\ failed = {} /\ opt.rec /\ opt.max = 2
    /\ Len(tree) = 3 /\ tree[2].parent = 1 /\ tree[3].parent = Root
    /\ Len(WantedInOrder) = 3
    /\ Nodes(ret.res) = <<1, 2>>

\* C20: when a call with immediate output returns without error, what was
\* written to the output is exactly the returned list, in the same order.
C20_OutputIsResult ==
    (Succeeded /\ opt.output) => out = Values(ret.res)

\* C16: with RelativePaths and without Name, every returned value is the
\* original root followed by what comes after the resolved root at the front
\* of the entry's path; nothing else of the path is changed.
C16_RelativeReplacesPrefixOnly ==
    (pc = "done" /\ opt.relative /\ ~opt.name)
        => \A i \in 1..Len(ret.res) :
              LET p == PathOf(tree, ret.res[i].node)
              IN  ret.res[i].val = RootOrig \o SubSeq(p, Len(RootRes) + 1, Len(p))

\* C15: with recursion on, an uncapped call that meets no failure reports the
\* matching entries of the directory a symbolic link points to, as it does
\* for a subdirectory.
C15_LinkedDirFollowed ==
    (Succeeded /\ opt.rec /\ opt.max = -1 /\ failed = {})
        => \A k \in Wanted({}) :
              (tree[k].parent # Root /\ tree[tree[k].parent].kind = "link")
                  => \E i \in 1..Len(ret.res) : ret.res[i].node = k

\* C17: with WithWriter(w), the accepted results are what was written to w,
\* in order, and nothing was written to standard output.
C17_WriterGetsResults ==
    (opt.out /\ opt.output = "w") => (wOut = ret.res /\ out = <<>>)

\* C14: with a caller that keeps receiving, the iterator channel and the
\* error channel are eventually closed in every run, and nothing is sent to
\* the iterator channel once it is closed.
C14_ChannelsEventuallyClosed ==
    /\ <>(iterClosed /\ errClosed)
    /\ [][iterClosed => Len(iterCh') <= Len(iterCh)]_vars

\* A traversal that had sent a result was cancelled; the error channel holds
\* the cancellation error, both channels are closed and a result is still to
\* be received.
C14_Witness ==
    /\ iterClosed /\ errClosed
    /\ errCh = <<"canceled">>
    /\ emitted >= 1
    /\ iterCh # <<>>

\* The innermost call is about to return its list to the calling find.
ReturnsToCaller ==
    /\ pc = "running"
    /\ unwinding = "none"
    /\ Len(stack) >= 2
    /\ (Top.returns \/ Top.i > Len(Top.data))

\* The calling find is about to cut the list the innermost call returns.
Truncates ==
    /\ ReturnsToCaller
    /\ opt.max # -1
    /\ Len(stack[Len(stack) - 1].res) + Len(Top.res) >= opt.max

\* C21: under Max(N), N >= 1, every call of find that is in its loop holds
\* fewer than N results; when the result of a recursive call is cut, the cut
\* index N - len(res) is between 1 and the length of that result, so the
\* slice expression never panics; and the returned list has at most N
\* entries.
C21_CutIndexInRange ==
    opt.max >= 1
        => /\ \A n \in 1..Len(stack) :
                 (pc = "running" /\ ~stack[n].returns) => Len(stack[n].res) < opt.max
           /\ Truncates
                 => LET cut == opt.max - Len(stack[Len(stack) - 1].res)
                    IN  1 <= cut /\ cut <= Len(Top.res)
           /\ pc # "panic"
           /\ Len(ret.res) <= opt.max

\* Under Max(2) a call that holds one result is about to cut the two results
\* of the call it made down to one.
C21_Witness ==
    /\ Truncates
    /\ opt.max = 2
    /\ Len(stack[Len(stack) - 1].res) = 1
    /\ Len(Top.res) = 2

\* No directory was listed twice by os.ReadDir.
ListedOnce ==
    \A i, j \in 1..Len(listed) : i # j => listed[i] # listed[j]

\* C22: a recursive call of Find whose context is never cancelled, on any
\* tree, trees with symbolic links back to an ancestor directory included,
\* eventually returns, and it never lists the same directory twice.
C22_ReturnsAndListsOnce == <>(pc = "done") /\ []ListedOnce

\* An uncapped call returned a list and no error from a tree with a link back to
\* an ancestor: it listed the directory the link lies in, and so met the
\* link, and it listed two directories or more.
C22_Witness ==
    /\ pc = "done"
    /\ ret.err = "nil"
    /\ opt.max = -1
    /\ Len(listed) >= 2
    /\ \E k \in 1..Len(tree) :
          /\ IsBackLink(tree, k)
          /\ \E i \in 1..Len(listed) : listed[i] = tree[k].parent

====
